---- MODULE Spec2Model ----
(***************************************************************************)
(* Model of the rustplanning search tree (src/src/tree.rs) and of the RRT  *)
(* planner that drives it (src/src/planning/rrt.rs).                       *)
(*                                                                         *)
(* Node values are the i32 points on a line of the unit tests, with        *)
(* distance |a - b|; costs are therefore integers.  Indices into the node  *)
(* vector are 0-based as in the source.                                    *)
(***************************************************************************)
EXTENDS Integers, Sequences, FiniteSets, TLC

\* Largest node value offered to the tree API.
MaxValue == 3

\* Calls on the tree API are followed while no stored cost exceeds this.
MaxCost == 5

\* Largest value of start, of goal and of what sample_fn returns.
MaxSample == 4

\* Largest max_iterations handed to the planner.
MaxIterations == 3

\* Largest rewire_radius handed to the planner.
MaxRadius == 2

\* Largest number of nodes of the trees the queries are tried on.
MaxNodes == 3

\* Option<usize>::None of Node.parent.
None == -1

Values == 0..MaxValue

VARIABLES
    tree,       \* Tree { nodes, nodes_map }
    lastOp,     \* the last call made on the tree API and its result
    pc,         \* position of rrt() in its body
    args,       \* the arguments rrt() was called with
    iter,       \* number of outer iterations entered so far
    sample,     \* the sample of the current iteration
    new_points, \* first component of extend_tree's result
    nearest,    \* second component of extend_tree's result
    rewire,     \* progress of the rewire loops of the current iteration
    calls,      \* how often each callback has been invoked
    timedOut,   \* the elapsed-time check has reported the budget exceeded
    ret,        \* what rrt() returned
    twin        \* a second execution of rrt() on the same samples: its tree,
                \* whether it has left the loop, and what it returned

vars == <<tree, lastOp, pc, args, iter, sample, new_points, nearest, rewire,
          calls, timedOut, ret, twin>>

planVars == <<pc, args, iter, sample, new_points, nearest, rewire, calls,
              timedOut, ret, twin>>

----------------------------------------------------------------------------
(* Values and sequences *)

Abs(x) == IF x < 0 THEN -x ELSE x

\* The distance without its abs()
distance_signed(a, b) == a - b

\* impl Distance for i32
distance(a, b) == Abs(a - b)

\* LinkedHashSet::remove on the insertion-ordered children set
RECURSIVE SeqRemove(_, _)
SeqRemove(s, x) ==
    IF s = <<>> THEN <<>>
    ELSE IF Head(s) = x THEN SeqRemove(Tail(s), x)
    ELSE <<Head(s)>> \o SeqRemove(Tail(s), x)

\* LinkedHashSet::insert: the value ends up last, whether it was present or not
SeqInsert(s, x) == Append(SeqRemove(s, x), x)

SeqSet(s) == {s[i] : i \in 1..Len(s)}

----------------------------------------------------------------------------
(* The tree *)

\* Node::new
NewNode(value, parent, cost) ==
    [value |-> value, parent |-> parent, cost |-> cost,
     children |-> <<>>, neighbors |-> <<>>]

\* Tree::size
size(t) == Cardinality(DOMAIN t.nodes)

contains_key(t, v) == v \in DOMAIN t.nodes_map

\* Tree::new
TreeNew(val) ==
    [nodes |-> (0 :> NewNode(val, None, 0)), nodes_map |-> (val :> 0)]

\* HashMap::insert: the key maps to the value, whatever it mapped to before
MapInsert(m, k, v) ==
    [x \in DOMAIN m \cup {k} |-> IF x = k THEN v ELSE m[x]]

\* The second half of Tree::add_child: the child node, with the cost worked
\* out for it, is pushed, entered in the map and made a child of its parent
PushChild(t, parent_idx, child, cost) ==
    LET child_idx == size(t)
        pushed == t.nodes @@ (child_idx :> NewNode(child, parent_idx, cost))
    IN  [tree |->
            [nodes |-> [pushed EXCEPT ![parent_idx].children =
                            SeqInsert(@, child_idx)],
             nodes_map |-> MapInsert(t.nodes_map, child, child_idx)],
         res |-> "Ok"]

\* add_child without its first check: a value already in the tree is added again
add_child_unchecked(t, parent, child) ==
    IF ~contains_key(t, parent)
    THEN [tree |-> t, res |-> "ParentNotFound"]
    ELSE PushChild(t, t.nodes_map[parent], child,
                   t.nodes[t.nodes_map[parent]].cost + distance(child, parent))

\* add_child with the parent's cost left out of the child's
add_child_edge_cost(t, parent, child) ==
    IF contains_key(t, child)
    THEN [tree |-> t, res |-> "ChildAlreadyPresent"]
    ELSE IF ~contains_key(t, parent)
    THEN [tree |-> t, res |-> "ParentNotFound"]
    ELSE PushChild(t, t.nodes_map[parent], child, distance(child, parent))

\* add_child entering the child in the map before it looks the parent up
add_child_map_first(t, parent, child) ==
    IF contains_key(t, child)
    THEN [tree |-> t, res |-> "ChildAlreadyPresent"]
    ELSE IF ~contains_key(t, parent)
    THEN [tree |-> [nodes |-> t.nodes,
                    nodes_map |-> MapInsert(t.nodes_map, child, size(t))],
          res |-> "ParentNotFound"]
    ELSE PushChild(t, t.nodes_map[parent], child,
                   t.nodes[t.nodes_map[parent]].cost + distance(child, parent))

\* add_child forgetting to enter the child among its parent's children
add_child_no_link(t, parent, child) ==
    IF contains_key(t, child)
    THEN [tree |-> t, res |-> "ChildAlreadyPresent"]
    ELSE IF ~contains_key(t, parent)
    THEN [tree |-> t, res |-> "ParentNotFound"]
    ELSE [tree |->
            [nodes |-> t.nodes @@
                (size(t) :> NewNode(child, t.nodes_map[parent],
                    t.nodes[t.nodes_map[parent]].cost + distance(child, parent))),
             nodes_map |-> MapInsert(t.nodes_map, child, size(t))],
          res |-> "Ok"]

\* Tree::add_child; res is "Ok" or the error
add_child(t, parent, child) ==
    IF contains_key(t, child)
    THEN [tree |-> t, res |-> "ChildAlreadyPresent"]
    ELSE IF ~contains_key(t, parent)
    THEN [tree |-> t, res |-> "ParentNotFound"]
    ELSE PushChild(t, t.nodes_map[parent], child,
                   t.nodes[t.nodes_map[parent]].cost + distance(child, parent))

\* The body of Tree::set_parent after its checks, with two of its statements
\* optional: the removal from the existing parent and the update of the cost
Reparented(t, parent, child, remove, recost) ==
    LET parent_idx == t.nodes_map[parent]
        child_idx == t.nodes_map[child]
        existing_parent == t.nodes[child_idx].parent
        n1 == IF remove
              THEN [t.nodes EXCEPT ![existing_parent].children =
                        SeqRemove(@, child_idx)]
              ELSE t.nodes
        n2 == [n1 EXCEPT ![child_idx].parent = parent_idx]
        n3 == [n2 EXCEPT ![parent_idx].children = SeqInsert(@, child_idx)]
        cost == IF recost THEN n3[parent_idx].cost + distance(child, parent)
                ELSE n3[child_idx].cost
    IN  [tree |-> [nodes |-> [n3 EXCEPT ![child_idx].cost = cost],
                   nodes_map |-> t.nodes_map],
         res |-> "Ok"]

\* set_parent leaving the child among the children of its former parent
set_parent_keep_old(t, parent, child) ==
    IF ~contains_key(t, parent)
    THEN [tree |-> t, res |-> "ParentNotFound"]
    ELSE IF ~contains_key(t, child)
    THEN [tree |-> t, res |-> "ChildNotFound"]
    ELSE IF t.nodes_map[child] = 0
    THEN [tree |-> t, res |-> "CannotReparentRoot"]
    ELSE Reparented(t, parent, child, FALSE, TRUE)

\* set_parent leaving the child's cost as it was
set_parent_stale_cost(t, parent, child) ==
    IF ~contains_key(t, parent)
    THEN [tree |-> t, res |-> "ParentNotFound"]
    ELSE IF ~contains_key(t, child)
    THEN [tree |-> t, res |-> "ChildNotFound"]
    ELSE IF t.nodes_map[child] = 0
    THEN [tree |-> t, res |-> "CannotReparentRoot"]
    ELSE Reparented(t, parent, child, TRUE, FALSE)

\* set_parent looking the child up before the parent
set_parent_child_first(t, parent, child) ==
    IF ~contains_key(t, child)
    THEN [tree |-> t, res |-> "ChildNotFound"]
    ELSE IF ~contains_key(t, parent)
    THEN [tree |-> t, res |-> "ParentNotFound"]
    ELSE IF t.nodes_map[child] = 0
    THEN [tree |-> t, res |-> "CannotReparentRoot"]
    ELSE Reparented(t, parent, child, TRUE, TRUE)

\* set_parent without its check for the root: the root, which has no
\* existing parent to be removed from, is given one
set_parent_root_allowed(t, parent, child) ==
    IF ~contains_key(t, parent)
    THEN [tree |-> t, res |-> "ParentNotFound"]
    ELSE IF ~contains_key(t, child)
    THEN [tree |-> t, res |-> "ChildNotFound"]
    ELSE Reparented(t, parent, child, t.nodes_map[child] # 0, TRUE)

\* Tree::set_parent; res is "Ok" or the error
set_parent(t, parent, child) ==
    IF ~contains_key(t, parent)
    THEN [tree |-> t, res |-> "ParentNotFound"]
    ELSE IF ~contains_key(t, child)
    THEN [tree |-> t, res |-> "ChildNotFound"]
    ELSE IF t.nodes_map[child] = 0
    THEN [tree |-> t, res |-> "CannotReparentRoot"]
    ELSE Reparented(t, parent, child, TRUE, TRUE)

\* Iterator::min_by over the node vector from index i on, best being the
\* minimum so far: a later node replaces it when the comparison of the two is
\* Greater (strict) -- or, with strict FALSE, also when it is Equal
RECURSIVE MinByFrom(_, _, _, _, _)
MinByFrom(t, val, i, best, strict) ==
    IF i >= size(t) THEN best
    ELSE
        LET da == distance(val, t.nodes[best].value)
            db == distance(val, t.nodes[i].value)
            replace == IF strict THEN da > db ELSE da >= db
        IN  MinByFrom(t, val, i + 1, IF replace THEN i ELSE best, strict)

\* nearest_neighbor keeping the last of several minima
nearest_neighbor_last(t, val) == t.nodes[MinByFrom(t, val, 1, 0, FALSE)].value

\* Tree::nearest_neighbor: Iterator::min_by keeps the first of several minima
nearest_neighbor(t, val) == t.nodes[MinByFrom(t, val, 1, 0, TRUE)].value

\* f64::MAX, above every distance
F64Max == 1000000

\* The first loop of Tree::nearest_neighbors from index i on;
\* st = [min_distance, nearest_idx, neighbors]
RECURSIVE ScanFrom(_, _, _, _, _, _)
ScanFrom(t, val, node_idx, radius, i, st) ==
    IF i >= size(t) THEN st
    ELSE IF i = node_idx THEN ScanFrom(t, val, node_idx, radius, i + 1, st)
    ELSE
        LET d == distance(val, t.nodes[i].value)
            pushed == IF d <= radius THEN Append(st.neighbors, <<i, d>>)
                      ELSE st.neighbors
        IN  ScanFrom(t, val, node_idx, radius, i + 1,
                IF d < st.min_distance
                THEN [min_distance |-> d, nearest_idx |-> i, neighbors |-> pushed]
                ELSE [st EXCEPT !.neighbors = pushed])

\* The second loop of Tree::nearest_neighbors: each pair found is entered in
\* the neighbors map of both nodes
RECURSIVE RecordNeighbors(_, _, _)
RecordNeighbors(nodes, node_idx, found) ==
    IF found = <<>> THEN nodes
    ELSE
        LET i == Head(found)[1]
            d == Head(found)[2]
            n1 == [nodes EXCEPT ![node_idx].neighbors = MapInsert(@, i, d)]
            n2 == [n1 EXCEPT ![i].neighbors = MapInsert(@, node_idx, d)]
        IN  RecordNeighbors(n2, node_idx, Tail(found))

\* The second loop entering each pair in the map of the queried node only
RecordNeighborsOneWay(nodes, node_idx, found) ==
    [nodes EXCEPT ![node_idx].neighbors =
        [i \in DOMAIN @ \cup {found[k][1] : k \in 1..Len(found)} |->
            IF \E k \in 1..Len(found) : found[k][1] = i
            THEN found[CHOOSE k \in 1..Len(found) : found[k][1] = i][2]
            ELSE @[i]]]

\* Tree::nearest_neighbors with the second loop leaving the other node alone
tree_nearest_neighbors_one_way(t, val, radius) ==
    IF ~contains_key(t, val)
    THEN [tree |-> t, res |-> "NotFound", value |-> None]
    ELSE
        LET node_idx == t.nodes_map[val]
            st == ScanFrom(t, val, node_idx, radius, 0,
                    [min_distance |-> F64Max, nearest_idx |-> node_idx,
                     neighbors |-> <<>>])
        IN  [tree |-> [nodes |-> RecordNeighborsOneWay(t.nodes, node_idx,
                                                       st.neighbors),
                       nodes_map |-> t.nodes_map],
             res |-> "Ok", value |-> t.nodes[st.nearest_idx].value]

\* Tree::nearest_neighbors (the one that takes &mut self); value is what the
\* returned reference points at
tree_nearest_neighbors(t, val, radius) ==
    IF ~contains_key(t, val)
    THEN [tree |-> t, res |-> "NotFound", value |-> None]
    ELSE
        LET node_idx == t.nodes_map[val]
            st == ScanFrom(t, val, node_idx, radius, 0,
                    [min_distance |-> F64Max, nearest_idx |-> node_idx,
                     neighbors |-> <<>>])
        IN  [tree |-> [nodes |-> RecordNeighbors(t.nodes, node_idx, st.neighbors),
                       nodes_map |-> t.nodes_map],
             res |-> "Ok", value |-> t.nodes[st.nearest_idx].value]

\* The loop of Tree::path: values pushed from idx up the parent pointers.
\* A walk longer than the node vector is in a cycle and never ends; it is
\* cut there and reported by path as "Diverges".
RECURSIVE WalkUp(_, _, _)
WalkUp(t, idx, fuel) ==
    IF idx = None \/ fuel = 0 THEN <<>>
    ELSE <<idx>> \o WalkUp(t, t.nodes[idx].parent, fuel - 1)

Reverse(s) == [i \in 1..Len(s) |-> s[Len(s) + 1 - i]]

\* path without its path.reverse(): the values come end-first
path_not_reversed(t, end) ==
    IF ~contains_key(t, end) THEN [res |-> "NotFound", path |-> <<>>]
    ELSE
        LET walk == WalkUp(t, t.nodes_map[end], size(t) + 1)
        IN  IF Len(walk) > size(t)
            THEN [res |-> "Diverges", path |-> <<>>]
            ELSE [res |-> "Ok",
                  path |-> [i \in 1..Len(walk) |-> t.nodes[walk[i]].value]]

\* path with a loop that pushes only the nodes that have a parent
path_without_root(t, end) ==
    IF ~contains_key(t, end) THEN [res |-> "NotFound", path |-> <<>>]
    ELSE
        LET walk == WalkUp(t, t.nodes_map[end], size(t) + 1)
        IN  IF Len(walk) > size(t)
            THEN [res |-> "Diverges", path |-> <<>>]
            ELSE [res |-> "Ok",
                  path |-> Reverse([i \in 1..(Len(walk) - 1) |->
                                        t.nodes[walk[i]].value])]

\* Tree::path
path(t, end) ==
    IF ~contains_key(t, end) THEN [res |-> "NotFound", path |-> <<>>]
    ELSE
        LET walk == WalkUp(t, t.nodes_map[end], size(t) + 1)
        IN  IF Len(walk) > size(t)
            THEN [res |-> "Diverges", path |-> <<>>]
            ELSE [res |-> "Ok",
                  path |-> Reverse([i \in 1..Len(walk) |-> t.nodes[walk[i]].value])]

\* DepthFirstIterator::next until the stack is empty: the top index is
\* popped, its children are pushed last child first, its value is yielded
RECURSIVE DepthFirstFrom(_, _)
DepthFirstFrom(t, stack) ==
    IF stack = <<>> THEN <<>>
    ELSE
        LET index == stack[Len(stack)]
            popped == SubSeq(stack, 1, Len(stack) - 1)
        IN  <<t.nodes[index].value>> \o
                DepthFirstFrom(t, popped \o Reverse(t.nodes[index].children))

\* Tree::iter_depth_first, collected: the iterator starts with the root on
\* its stack
iter_depth_first(t) == DepthFirstFrom(t, <<0>>)

----------------------------------------------------------------------------
(* Calls on the tree API, with any arguments *)

Idle ==
    /\ pc = "idle"
    /\ args = <<>>
    /\ iter = 0
    /\ sample = None
    /\ new_points = <<>>
    /\ nearest = None
    /\ rewire = <<>>
    /\ calls = <<>>
    /\ timedOut = FALSE
    /\ ret = <<>>
    /\ twin = <<>>

\* The root values tried: the end of the line and a point inside it
Roots == {0, 1}

TreeInit ==
    /\ \E val \in Roots :
        /\ tree = TreeNew(val)
        /\ lastOp = [op |-> "new", parent |-> val, child |-> val, res |-> "Ok"]
    /\ Idle

AddChild(parent, child) ==
    LET r == add_child(tree, parent, child)
    IN  /\ tree' = r.tree
        /\ lastOp' = [op |-> "add_child", parent |-> parent, child |-> child,
                      res |-> r.res]
        /\ UNCHANGED planVars

SetParent(parent, child) ==
    LET r == set_parent(tree, parent, child)
    IN  /\ tree' = r.tree
        /\ lastOp' = [op |-> "set_parent", parent |-> parent, child |-> child,
                      res |-> r.res]
        /\ UNCHANGED planVars

IterDepthFirst ==
    /\ lastOp' = [op |-> "iter_depth_first", res |-> iter_depth_first(tree)]
    /\ UNCHANGED <<tree, planVars>>

CostsWithin(t, bound) == \A i \in DOMAIN t.nodes : t.nodes[i].cost <= bound

TreeNext ==
    \/ \E parent \in Values, child \in Values :
            AddChild(parent, child) /\ CostsWithin(tree', MaxCost)
    \/ \E parent \in Values, child \in Values :
            SetParent(parent, child) /\ CostsWithin(tree', MaxCost)
    \/ IterDepthFirst

Spec == TreeInit /\ [][TreeNext]_vars

----------------------------------------------------------------------------
(* The HashTree queries the planner uses on top of the operations above *)

\* HashTree::cost of a value that is in the tree
cost(t, v) == t.nodes[t.nodes_map[v]].cost

\* The scan of HashTree::nearest_neighbors from index i on: the values found
\* within radius of the query so far, each mapped to its distance
RECURSIVE WithinFrom(_, _, _, _, _)
WithinFrom(t, val, radius, i, found) ==
    IF i >= size(t) THEN found
    ELSE
        LET d == distance(val, t.nodes[i].value)
        IN  WithinFrom(t, val, radius, i + 1,
                IF d <= radius THEN MapInsert(found, t.nodes[i].value, d)
                ELSE found)

\* HashTree::nearest_neighbors: every value of the tree within radius of the
\* query, mapped to its distance
nearest_neighbors(t, val, radius) == WithinFrom(t, val, radius, 0, <<>>)

----------------------------------------------------------------------------
(* Queries on trees grown by add_child.  The queries read the values, the    *)
(* order of the node vector, the parent pointers and the neighbors maps;     *)
(* lastOp records each call with what it returned.                           *)

\* The query values: those the tree may hold and one beyond each end
Queries == -1..(MaxValue + 1)

Radii == 0..MaxRadius

NearestNeighbor(val) ==
    /\ lastOp' = [op |-> "nearest_neighbor", val |-> val,
                  res |-> nearest_neighbor(tree, val)]
    /\ UNCHANGED <<tree, planVars>>

\* HashTree::nearest_neighbors, which returns the map and leaves the tree alone
NearestNeighbors(val, radius) ==
    /\ lastOp' = [op |-> "nearest_neighbors", val |-> val, radius |-> radius,
                  res |-> nearest_neighbors(tree, val, radius)]
    /\ UNCHANGED <<tree, planVars>>

\* Tree::nearest_neighbors, which records the neighbours in the nodes
TreeNearestNeighbors(val, radius) ==
    LET r == tree_nearest_neighbors(tree, val, radius)
    IN  /\ tree' = r.tree
        /\ lastOp' = [op |-> "tree_nearest_neighbors", val |-> val,
                      radius |-> radius, res |-> r.res, value |-> r.value]
        /\ UNCHANGED planVars

Path(end) ==
    /\ lastOp' = [op |-> "path", end |-> end, res |-> path(tree, end)]
    /\ UNCHANGED <<tree, planVars>>

QueryNext ==
    \/ \E parent \in Values, child \in Values :
            AddChild(parent, child) /\ size(tree') <= MaxNodes
    \/ \E val \in Queries : NearestNeighbor(val)
    \/ \E val \in Queries, radius \in Radii : NearestNeighbors(val, radius)
    \/ \E end \in Queries : Path(end)

QuerySpec == TreeInit /\ [][QueryNext]_vars

\* Trees on which Tree::nearest_neighbors is called.  What it finds and
\* records depends on the values and on their order in the node vector, not on
\* the parent pointers, so the trees are grown by add_child under the root.
NeighborNext ==
    \/ \E child \in Values :
            AddChild(tree.nodes[0].value, child) /\ size(tree') <= MaxNodes
    \/ \E val \in Queries, radius \in Radii : TreeNearestNeighbors(val, radius)

NeighborSpec == TreeInit /\ [][NeighborNext]_vars

----------------------------------------------------------------------------
(* The callbacks handed to rrt(): those of the unit tests *)

ExtendFns == {"plus_one"}
ConnectableFns == {"adjacent", "blocked", "within_two", "always"}

\* The point an obstacle stands on: the last of the values the tree API is
\* driven with, inside the range of the samples
Obstacle == MaxValue

\* extend_fn of test_extend_tree
extend_fn(a, from, toward) == from + 1

\* connectable_fn of test_extend_tree (neighbours on the line), the same with
\* an obstacle on the line, the same with twice the reach, and is_valid_fn of
\* test_rewire_tree (everything is connectable)
connectable_fn(a, from, to) ==
    IF a.connectable_fn = "adjacent" THEN Abs(to - from) = 1
    ELSE IF a.connectable_fn = "blocked"
    THEN Abs(to - from) = 1 /\ from # Obstacle /\ to # Obstacle
    ELSE IF a.connectable_fn = "within_two" THEN Abs(to - from) <= 2
    ELSE TRUE

----------------------------------------------------------------------------
(* extend_tree *)

\* The while loop of the use_connect branch, from one evaluation of its
\* condition on; st = [current_point, distance_to_sample, path, ext, conn],
\* ext and conn counting the callback invocations.
RECURSIVE ConnectLoop(_, _, _)
ConnectLoop(a, smp, st) ==
    IF connectable_fn(a, st.current_point, smp)
    THEN [st EXCEPT !.conn = @ + 1]
    ELSE
        LET new_point == extend_fn(a, st.current_point, smp)
            new_distance_to_sample == distance(new_point, smp)
        IN  IF new_distance_to_sample >= st.distance_to_sample
            THEN [st EXCEPT !.conn = @ + 1, !.ext = @ + 1]
            ELSE IF ~connectable_fn(a, st.current_point, new_point)
            THEN [st EXCEPT !.conn = @ + 2, !.ext = @ + 1]
            ELSE ConnectLoop(a, smp,
                    [current_point |-> new_point,
                     distance_to_sample |-> new_distance_to_sample,
                     path |-> Append(st.path, new_point),
                     ext |-> st.ext + 1,
                     conn |-> st.conn + 2])

\* extend_tree taking its single step without asking connectable
extend_tree_step_unchecked(t, smp, a, use_connect) ==
    LET near == nearest_neighbor(t, smp)
    IN  IF connectable_fn(a, near, smp)
        THEN [path |-> <<smp>>, nearest |-> near, ext |-> 0, conn |-> 1]
        ELSE IF use_connect
        THEN
            LET st == ConnectLoop(a, smp,
                        [current_point |-> near,
                         distance_to_sample |-> distance(near, smp),
                         path |-> <<>>, ext |-> 0, conn |-> 1])
                reached == connectable_fn(a, st.current_point, smp)
            IN  [path |-> IF reached THEN Append(st.path, smp) ELSE st.path,
                 nearest |-> near, ext |-> st.ext, conn |-> st.conn + 1]
        ELSE
            [path |-> <<extend_fn(a, near, smp)>>,
             nearest |-> near, ext |-> 1, conn |-> 1]

\* extend_tree ending every chain with the sample
extend_tree_sample_always(t, smp, a, use_connect) ==
    LET near == nearest_neighbor(t, smp)
    IN  IF connectable_fn(a, near, smp)
        THEN [path |-> <<smp>>, nearest |-> near, ext |-> 0, conn |-> 1]
        ELSE IF use_connect
        THEN
            LET st == ConnectLoop(a, smp,
                        [current_point |-> near,
                         distance_to_sample |-> distance(near, smp),
                         path |-> <<>>, ext |-> 0, conn |-> 1])
            IN  [path |-> Append(st.path, smp),
                 nearest |-> near, ext |-> st.ext, conn |-> st.conn]
        ELSE
            LET new_point == extend_fn(a, near, smp)
            IN  [path |-> IF connectable_fn(a, near, new_point)
                          THEN <<new_point>> ELSE <<>>,
                 nearest |-> near, ext |-> 1, conn |-> 2]

\* extend_tree: the new points, the nearest node, and the callback invocations
extend_tree(t, smp, a, use_connect) ==
    LET near == nearest_neighbor(t, smp)
    IN  IF connectable_fn(a, near, smp)
        THEN [path |-> <<smp>>, nearest |-> near, ext |-> 0, conn |-> 1]
        ELSE IF use_connect
        THEN
            LET st == ConnectLoop(a, smp,
                        [current_point |-> near,
                         distance_to_sample |-> distance(near, smp),
                         path |-> <<>>, ext |-> 0, conn |-> 1])
                reached == connectable_fn(a, st.current_point, smp)
            IN  [path |-> IF reached THEN Append(st.path, smp) ELSE st.path,
                 nearest |-> near, ext |-> st.ext, conn |-> st.conn + 1]
        ELSE
            LET new_point == extend_fn(a, near, smp)
            IN  [path |-> IF connectable_fn(a, near, new_point)
                          THEN <<new_point>> ELSE <<>>,
                 nearest |-> near, ext |-> 1, conn |-> 2]

----------------------------------------------------------------------------
(* rewire_tree *)

\* The orders in which the entries of a map with key set S can come out of its
\* iterator: every arrangement of S
RECURSIVE Orders(_)
Orders(S) ==
    IF S = {} THEN {<<>>}
    ELSE UNION {{<<x>> \o o : o \in Orders(S \ {x})} : x \in S}

\* The loop of rewire_tree over the neighbours still to come, in the order the
\* map yields them
RECURSIVE RewireLoop(_, _, _, _, _, _)
RewireLoop(t, a, point, point_cost, neighbors, order) ==
    IF order = <<>> THEN t
    ELSE
        LET neighbor == Head(order)
            old_cost == cost(t, neighbor)
            new_cost == neighbors[neighbor] + point_cost
            moved == /\ neighbor # point
                     /\ new_cost < old_cost
                     /\ connectable_fn(a, point, neighbor)
        IN  RewireLoop(IF moved THEN set_parent(t, point, neighbor).tree ELSE t,
                       a, point, point_cost, neighbors, Tail(order))

\* The loop with the comparison of the costs turned round
RECURSIVE RewireLoopWorse(_, _, _, _, _, _)
RewireLoopWorse(t, a, point, point_cost, neighbors, order) ==
    IF order = <<>> THEN t
    ELSE
        LET neighbor == Head(order)
            old_cost == cost(t, neighbor)
            new_cost == neighbors[neighbor] + point_cost
            moved == /\ neighbor # point
                     /\ new_cost > old_cost
                     /\ connectable_fn(a, point, neighbor)
        IN  RewireLoopWorse(
                IF moved THEN set_parent(t, point, neighbor).tree ELSE t,
                a, point, point_cost, neighbors, Tail(order))

\* The loop leaving at the first neighbour it moves
RECURSIVE RewireLoopBreak(_, _, _, _, _, _)
RewireLoopBreak(t, a, point, point_cost, neighbors, order) ==
    IF order = <<>> THEN t
    ELSE
        LET neighbor == Head(order)
            old_cost == cost(t, neighbor)
            new_cost == neighbors[neighbor] + point_cost
            moved == /\ neighbor # point
                     /\ new_cost < old_cost
                     /\ connectable_fn(a, point, neighbor)
        IN  IF moved THEN set_parent(t, point, neighbor).tree
            ELSE RewireLoopBreak(t, a, point, point_cost, neighbors,
                                 Tail(order))

\* rewire_tree asking connectable for nothing
rewire_tree_unchecked(t, a, point, rewire_radius, order) ==
    RewireLoop(t, [connectable_fn |-> "always"], point, cost(t, point),
               nearest_neighbors(t, point, rewire_radius), order)

\* rewire_tree with the comparison of the costs turned round
rewire_tree_worse(t, a, point, rewire_radius, order) ==
    RewireLoopWorse(t, a, point, cost(t, point),
                    nearest_neighbors(t, point, rewire_radius), order)

\* rewire_tree done with its loop once a neighbour has been moved
rewire_tree_break(t, a, point, rewire_radius, order) ==
    RewireLoopBreak(t, a, point, cost(t, point),
                    nearest_neighbors(t, point, rewire_radius), order)

\* rewire_tree, for a point of the tree; order is the order in which the
\* iterator of neighbors yields its keys
rewire_tree(t, a, point, rewire_radius, order) ==
    RewireLoop(t, a, point, cost(t, point),
               nearest_neighbors(t, point, rewire_radius), order)

\* rewire_tree called on a tree grown by add_child and by earlier calls of
\* it; lastOp keeps the tree the call was made on
RewireTree(point, rewire_radius, c, order) ==
    /\ contains_key(tree, point)
    /\ tree' = rewire_tree(tree, [connectable_fn |-> c], point, rewire_radius,
                           order)
    /\ lastOp' = [op |-> "rewire_tree", point |-> point,
                  radius |-> rewire_radius, connectable_fn |-> c,
                  before |-> tree]
    /\ UNCHANGED planVars

\* The pivot's own entry, which the loop skips wherever it comes, is put
\* first; the other neighbours follow in any order
RewireNext ==
    \/ \E parent \in Values, child \in Values : AddChild(parent, child)
    \/ \E point \in Values, rewire_radius \in 1..MaxRadius,
          c \in ConnectableFns :
            \E order \in Orders(DOMAIN nearest_neighbors(tree, point,
                                            rewire_radius) \ {point}) :
                RewireTree(point, rewire_radius, c, <<point>> \o order)

RewireSpec == TreeInit /\ [][RewireNext]_vars

----------------------------------------------------------------------------
(* rrt(): one action per step of its body *)

NoRewire == [idx |-> 1, active |-> FALSE, point_cost |-> 0, neighbors |-> <<>>,
             todo |-> {}]

\* The start poses tried: the end of the line and a point inside it
Starts == {0, 2}

\* rrt() is entered with its arguments; rewire_radius, which only rewire_tree
\* reads, is varied when use_rrtstar is set
PlanInit ==
    /\ \E start \in Starts, goal \in 0..MaxSample,
          use_rrtstar \in BOOLEAN, use_rrtconnect \in BOOLEAN,
          fast_return \in BOOLEAN,
          rewire_radius \in 1..MaxRadius,
          max_iterations \in 0..MaxIterations,
          e \in ExtendFns, c \in ConnectableFns :
            /\ use_rrtstar \/ rewire_radius = 1
            /\ args = [start |-> start, goal |-> goal,
                       extend_fn |-> e, connectable_fn |-> c,
                       use_rrtstar |-> use_rrtstar,
                       rewire_radius |-> rewire_radius,
                       use_rrtconnect |-> use_rrtconnect,
                       max_iterations |-> max_iterations,
                       fast_return |-> fast_return]
            /\ tree = TreeNew(start)
            /\ lastOp = [op |-> "new", parent |-> start, child |-> start,
                         res |-> "Ok"]
    /\ pc = "loop"
    /\ iter = 0
    /\ sample = None
    /\ new_points = <<>>
    /\ nearest = None
    /\ rewire = NoRewire
    /\ calls = [sample_fn |-> 0, extend_fn |-> 0, connectable_fn |-> 0]
    /\ timedOut = FALSE
    /\ ret = <<>>
    /\ twin = <<>>

\* for _ in 0..max_iterations: the range is used up
LoopExit ==
    /\ pc = "loop"
    /\ iter >= args.max_iterations
    /\ pc' = "post"
    /\ UNCHANGED <<tree, lastOp, args, iter, sample, new_points, nearest,
                   rewire, calls, timedOut, ret, twin>>

\* The elapsed-time check finds the budget exceeded and control goes to next
TimeCheckFails(next) ==
    /\ pc = "loop"
    /\ iter < args.max_iterations
    /\ timedOut' = TRUE
    /\ iter' = iter + 1
    /\ pc' = next
    /\ UNCHANGED <<tree, lastOp, args, sample, new_points, nearest, rewire,
                   calls, ret, twin>>

\* The time check with continue in place of break
TimedOutContinue == TimeCheckFails("loop")

\* if start_time.elapsed() > duration_limit { break; }
TimedOut == TimeCheckFails("post")

\* An iteration the range admits, within the time budget: sample_fn() returns
\* smp and extend_tree() is called with it
EnterIteration(smp, in_range) ==
    /\ pc = "loop"
    /\ in_range
    /\ iter' = iter + 1
    /\ sample' = smp
    /\ LET r == extend_tree(tree, smp, args, args.use_rrtconnect)
       IN  /\ new_points' = r.path
           /\ nearest' = r.nearest
           /\ calls' = [sample_fn |-> calls.sample_fn + 1,
                        extend_fn |-> calls.extend_fn + r.ext,
                        connectable_fn |-> calls.connectable_fn + r.conn]
    /\ pc' = "extended"
    /\ UNCHANGED <<tree, lastOp, args, rewire, timedOut, ret, twin>>

\* The loop over 0..=max_iterations: one iteration too many
SampleAndExtendInclusive(smp) ==
    EnterIteration(smp, iter <= args.max_iterations)

\* for _ in 0..max_iterations { ... sample_fn(); extend_tree(..) }
SampleAndExtend(smp) == EnterIteration(smp, iter < args.max_iterations)

\* The empty extension ending the loop
DroppedBreak ==
    /\ pc = "extended"
    /\ new_points = <<>>
    /\ pc' = "post"
    /\ UNCHANGED <<tree, lastOp, args, iter, sample, new_points, nearest,
                   rewire, calls, timedOut, ret, twin>>

\* if new_points.is_empty() { continue; }
Dropped ==
    /\ pc = "extended"
    /\ new_points = <<>>
    /\ pc' = "loop"
    /\ UNCHANGED <<tree, lastOp, args, iter, sample, new_points, nearest,
                   rewire, calls, timedOut, ret, twin>>

\* The insertion loop: each point becomes a child of the one before it, the
\* first of nearest; the result of add_child is dropped.
RECURSIVE AddAll(_, _, _)
AddAll(t, parent, points) ==
    IF points = <<>> THEN t
    ELSE AddAll(add_child(t, parent, Head(points)).tree, Head(points),
                Tail(points))

\* The results the insertion loop drops, one for each call of add_child
RECURSIVE AddAllResults(_, _, _)
AddAllResults(t, parent, points) ==
    IF points = <<>> THEN <<>>
    ELSE <<add_child(t, parent, Head(points)).res>>
         \o AddAllResults(add_child(t, parent, Head(points)).tree,
                          Head(points), Tail(points))

\* The insertion loop hanging every point on the first parent
RECURSIVE AddAllUnderFirst(_, _, _)
AddAllUnderFirst(t, parent, points) ==
    IF points = <<>> THEN t
    ELSE AddAllUnderFirst(add_child(t, parent, Head(points)).tree, parent,
                          Tail(points))

\* The insertion step with parent never advanced
InsertUnderNearest ==
    /\ pc = "extended"
    /\ new_points # <<>>
    /\ tree' = AddAllUnderFirst(tree, nearest, new_points)
    /\ rewire' = NoRewire
    /\ pc' = IF args.use_rrtstar THEN "rewire" ELSE "goal"
    /\ UNCHANGED <<lastOp, args, iter, sample, new_points, nearest, calls,
                   timedOut, ret, twin>>

Insert ==
    /\ pc = "extended"
    /\ new_points # <<>>
    /\ tree' = AddAll(tree, nearest, new_points)
    /\ rewire' = NoRewire
    /\ pc' = IF args.use_rrtstar THEN "rewire" ELSE "goal"
    /\ UNCHANGED <<lastOp, args, iter, sample, new_points, nearest, calls,
                   timedOut, ret, twin>>

\* rewire_tree up to its loop: the neighbours of the next new point and the
\* point's cost
RewireBegin ==
    /\ pc = "rewire"
    /\ ~rewire.active
    /\ LET point == new_points[rewire.idx]
           neighbors == nearest_neighbors(tree, point, args.rewire_radius)
       IN  rewire' = [idx |-> rewire.idx, active |-> TRUE,
                      point_cost |-> cost(tree, point),
                      neighbors |-> neighbors, todo |-> DOMAIN neighbors]
    /\ UNCHANGED <<tree, lastOp, pc, args, iter, sample, new_points, nearest,
                   calls, timedOut, ret, twin>>

\* One turn of the loop of rewire_tree with another test of the costs: the
\* new cost above the old one, or no test at all
RewireTurn(neighbor, compared) ==
    /\ pc = "rewire"
    /\ rewire.active
    /\ neighbor \in rewire.todo
    /\ LET point == new_points[rewire.idx]
           old_cost == cost(tree, neighbor)
           new_cost == rewire.neighbors[neighbor] + rewire.point_cost
           asked == neighbor # point /\ (compared => new_cost > old_cost)
           last == rewire.todo = {neighbor}
       IN  /\ tree' = IF asked /\ connectable_fn(args, point, neighbor)
                      THEN set_parent(tree, point, neighbor).tree
                      ELSE tree
           /\ calls' = [calls EXCEPT !.connectable_fn =
                            IF asked THEN @ + 1 ELSE @]
           /\ rewire' = IF last
                        THEN [NoRewire EXCEPT !.idx = rewire.idx + 1]
                        ELSE [rewire EXCEPT !.todo = @ \ {neighbor}]
           /\ pc' = IF last /\ rewire.idx = Len(new_points)
                    THEN "goal" ELSE "rewire"
    /\ UNCHANGED <<lastOp, args, iter, sample, new_points, nearest, timedOut,
                   ret, twin>>

\* The turn moving the neighbour that is dearer to reach through the point
RewireStepWorse(neighbor) == RewireTurn(neighbor, TRUE)

\* The turn moving the neighbour whatever the costs
RewireStepAlways(neighbor) == RewireTurn(neighbor, FALSE)

\* One turn of the loop of rewire_tree, the neighbours coming in the order the
\* map yields them.  HashTree::set_parent takes the node to move first and its
\* new parent second (test_rewire_tree: rewiring at 2 makes 2 the parent of 1).
RewireStep(neighbor) ==
    /\ pc = "rewire"
    /\ rewire.active
    /\ neighbor \in rewire.todo
    /\ LET point == new_points[rewire.idx]
           old_cost == cost(tree, neighbor)
           new_cost == rewire.neighbors[neighbor] + rewire.point_cost
           asked == neighbor # point /\ new_cost < old_cost
           last == rewire.todo = {neighbor}
       IN  /\ tree' = IF asked /\ connectable_fn(args, point, neighbor)
                      THEN set_parent(tree, point, neighbor).tree
                      ELSE tree
           /\ calls' = [calls EXCEPT !.connectable_fn =
                            IF asked THEN @ + 1 ELSE @]
           /\ rewire' = IF last
                        THEN [NoRewire EXCEPT !.idx = rewire.idx + 1]
                        ELSE [rewire EXCEPT !.todo = @ \ {neighbor}]
           /\ pc' = IF last /\ rewire.idx = Len(new_points)
                    THEN "goal" ELSE "rewire"
    /\ UNCHANGED <<lastOp, args, iter, sample, new_points, nearest, timedOut,
                   ret, twin>>

\* The goal linked to the nearest node in place of the last new point
GoalCheckAtNearest ==
    /\ pc = "goal"
    /\ LET last == new_points[Len(new_points)]
           reached == connectable_fn(args, args.goal, last)
       IN  /\ tree' = IF reached THEN add_child(tree, nearest, args.goal).tree
                      ELSE tree
           /\ pc' = IF reached /\ args.fast_return THEN "post" ELSE "loop"
    /\ calls' = [calls EXCEPT !.connectable_fn = @ + 1]
    /\ UNCHANGED <<lastOp, args, iter, sample, new_points, nearest, rewire,
                   timedOut, ret, twin>>

\* The goal linked to the last new point without connectable being asked
GoalCheckUnasked ==
    /\ pc = "goal"
    /\ LET last == new_points[Len(new_points)]
       IN  /\ tree' = add_child(tree, last, args.goal).tree
           /\ pc' = IF args.fast_return THEN "post" ELSE "loop"
    /\ calls' = [calls EXCEPT !.connectable_fn = @ + 1]
    /\ UNCHANGED <<lastOp, args, iter, sample, new_points, nearest, rewire,
                   timedOut, ret, twin>>

\* if connectable_fn(goal, last) { add_child(last, goal); if fast_return { break; } }
GoalCheck ==
    /\ pc = "goal"
    /\ LET last == new_points[Len(new_points)]
           reached == connectable_fn(args, args.goal, last)
       IN  /\ tree' = IF reached THEN add_child(tree, last, args.goal).tree
                      ELSE tree
           /\ pc' = IF reached /\ args.fast_return THEN "post" ELSE "loop"
    /\ calls' = [calls EXCEPT !.connectable_fn = @ + 1]
    /\ UNCHANGED <<lastOp, args, iter, sample, new_points, nearest, rewire,
                   timedOut, ret, twin>>

\* The match on r, the result of tree.path(goal); a walk that never ends
\* returns nothing
FinishWith(r) ==
    /\ pc = "post"
    /\ ret' = IF r.res = "Ok" THEN [res |-> "Ok", path |-> r.path]
               ELSE IF r.res = "NotFound" THEN [res |-> "Err", path |-> <<>>]
               ELSE ret
    /\ pc' = IF r.res = "Diverges" THEN "hang" ELSE "done"
    /\ UNCHANGED <<tree, lastOp, args, iter, sample, new_points, nearest,
                   rewire, calls, timedOut, twin>>

\* rrt() giving up after a time-out, whatever the tree holds
FinishErrAfterTimeOut ==
    FinishWith(IF timedOut THEN [res |-> "NotFound", path |-> <<>>]
               ELSE path(tree, args.goal))

\* match tree.path(goal) { Ok(path) => Ok((path, tree)), Err(_) => Err(..) }
Finish == FinishWith(path(tree, args.goal))

PlanNext ==
    \/ LoopExit
    \/ TimedOut
    \/ \E smp \in 0..MaxSample : SampleAndExtend(smp)
    \/ Dropped
    \/ Insert
    \/ RewireBegin
    \/ \E neighbor \in rewire.todo : RewireStep(neighbor)
    \/ GoalCheck
    \/ Finish

PlanSpec == PlanInit /\ [][PlanNext]_vars

----------------------------------------------------------------------------
(* Two executions of rrt() on one sequence of samples *)

\* The seeds of the hasher of a map
Seeds == 0..(MaxSample + 1)

\* The order in which the iterator of a map with key set S yields its keys:
\* that of their hashes, which the seed of the map's hasher decides
RECURSIVE HashOrder(_, _)
HashOrder(S, seed) ==
    IF S = {} THEN <<>>
    ELSE
        LET hash(k) == (k + seed) % (MaxSample + 2)
            first == CHOOSE k \in S : \A o \in S : hash(k) <= hash(o)
        IN  <<first>> \o HashOrder(S \ {first}, seed)

\* for point in new_points.iter() { rewire_tree(tree, point, ..) }
RECURSIVE RewireAll(_, _, _, _)
RewireAll(t, a, points, seed) ==
    IF points = <<>> THEN t
    ELSE
        LET point == Head(points)
            keys == DOMAIN nearest_neighbors(t, point, a.rewire_radius)
        IN  RewireAll(rewire_tree(t, a, point, a.rewire_radius,
                                  HashOrder(keys, seed)),
                      a, Tail(points), seed)

\* One iteration of the loop of rrt() within its time budget, on sample smp:
\* the tree it leaves and whether it leaves the loop
Iteration(t, a, smp, seed) ==
    LET r == extend_tree(t, smp, a, a.use_rrtconnect)
    IN  IF r.path = <<>> THEN [tree |-> t, stop |-> FALSE]
        ELSE
            LET added == AddAll(t, r.nearest, r.path)
                rewired == IF a.use_rrtstar
                           THEN RewireAll(added, a, r.path, seed)
                           ELSE added
                last == r.path[Len(r.path)]
                reached == connectable_fn(a, a.goal, last)
            IN  [tree |-> IF reached
                          THEN add_child(rewired, last, a.goal).tree
                          ELSE rewired,
                 stop |-> reached /\ a.fast_return]

\* What rrt() returns on leaving its loop with tree t
Outcome(t, a) ==
    LET r == path(t, a.goal)
    IN  IF r.res = "Ok" THEN [res |-> "Ok", path |-> r.path]
        ELSE IF r.res = "NotFound" THEN [res |-> "Err", path |-> <<>>]
        ELSE [res |-> "Hang", path |-> <<>>]

\* Two calls of rrt() with the same poses, callbacks and options but for
\* use_rrtstar: the first call runs RRT*, the second RRT or RRT*
PairInit ==
    /\ \E start \in Starts, goal \in 0..MaxSample,
          use_rrtstar \in BOOLEAN, use_rrtconnect \in BOOLEAN,
          fast_return \in BOOLEAN,
          rewire_radius \in 1..MaxRadius,
          max_iterations \in 0..MaxIterations,
          e \in ExtendFns, c \in ConnectableFns :
            /\ args = [start |-> start, goal |-> goal,
                       extend_fn |-> e, connectable_fn |-> c,
                       use_rrtstar |-> TRUE,
                       rewire_radius |-> rewire_radius,
                       use_rrtconnect |-> use_rrtconnect,
                       max_iterations |-> max_iterations,
                       fast_return |-> fast_return]
            /\ tree = TreeNew(start)
            /\ twin = [tree |-> TreeNew(start), use_rrtstar |-> use_rrtstar,
                       pc |-> "loop", ret |-> <<>>]
            /\ lastOp = [op |-> "new", parent |-> start, child |-> start,
                         res |-> "Ok"]
    /\ pc = "loop"
    /\ iter = 0
    /\ sample = None
    /\ new_points = <<>>
    /\ nearest = None
    /\ rewire = NoRewire
    /\ calls = [sample_fn |-> 0, extend_fn |-> 0, connectable_fn |-> 0]
    /\ timedOut = FALSE
    /\ ret = <<>>

\* Both calls make their next iteration, sample_fn returning smp to each; a
\* call that has left its loop stays where it is.  The maps of the first
\* call hash with seed, those of the second with seed 0.
PairIterate(smp, seed) ==
    /\ pc \in {"loop", "post"} /\ twin.pc \in {"loop", "post"}
    /\ pc = "loop" \/ twin.pc = "loop"
    /\ iter < args.max_iterations
    /\ iter' = iter + 1
    /\ sample' = smp
    /\ LET r == Iteration(tree, args, smp, seed)
       IN  IF pc = "loop"
           THEN tree' = r.tree /\ pc' = IF r.stop THEN "post" ELSE "loop"
           ELSE UNCHANGED <<tree, pc>>
    /\ LET r == Iteration(twin.tree,
                          [args EXCEPT !.use_rrtstar = twin.use_rrtstar],
                          smp, 0)
       IN  twin' = IF twin.pc = "loop"
                   THEN [twin EXCEPT !.tree = r.tree,
                                     !.pc = IF r.stop THEN "post" ELSE "loop"]
                   ELSE twin
    /\ UNCHANGED <<lastOp, args, new_points, nearest, rewire, calls,
                   timedOut, ret>>

\* Both calls are out of their loops and return
PairFinish ==
    /\ pc = "post" \/ (pc = "loop" /\ iter >= args.max_iterations)
    /\ twin.pc = "post" \/ (twin.pc = "loop" /\ iter >= args.max_iterations)
    /\ ret' = Outcome(tree, args)
    /\ twin' = [twin EXCEPT !.ret = Outcome(twin.tree, args), !.pc = "done"]
    /\ pc' = "done"
    /\ UNCHANGED <<tree, lastOp, args, iter, sample, new_points, nearest,
                   rewire, calls, timedOut>>

PairNext ==
    \/ \E smp \in 0..MaxSample, seed \in Seeds : PairIterate(smp, seed)
    \/ PairFinish

PairSpec == PairInit /\ [][PairNext]_vars

----------------------------------------------------------------------------
(* Properties *)

Goal == args.goal
Start == args.start
Returned == pc = "done"
Parent(t, v) == t.nodes[t.nodes_map[v]].parent

\* Following parent pointers from node i ends at the root
ReachesRoot(t, i) ==
    LET walk == WalkUp(t, i, size(t) + 1)
    IN  Len(walk) <= size(t) /\ walk[Len(walk)] = 0

\* Every stored cost is the parent's stored cost plus the edge length
CostConsistent(t) ==
    \A i \in DOMAIN t.nodes :
        t.nodes[i].parent # None =>
            t.nodes[i].cost = t.nodes[t.nodes[i].parent].cost
                + distance(t.nodes[i].value, t.nodes[t.nodes[i].parent].value)

\* C1: rrt() returns, and it returns Ok exactly when the tree it ends with
\* holds goal and Err otherwise, however the loop ended.
OkIffGoalInTree ==
    pc \in {"done", "hang"} =>
        /\ pc = "done"
        /\ ret.res \in {"Ok", "Err"}
        /\ ret.res = "Ok" <=> contains_key(tree, Goal)

\* C1 witness: Ok after the fast_return break, with iterations to spare.
OkAfterFastReturn ==
    /\ Returned /\ ret.res = "Ok"
    /\ args.fast_return /\ ~timedOut /\ iter < args.max_iterations
    /\ Start # Goal

\* C2: a returned path is not empty, starts at start, ends at goal, and each
\* of its elements is the parent, in the returned tree, of the next.
OkPathIsParentChain ==
    (Returned /\ ret.res = "Ok") =>
        /\ Len(ret.path) >= 1
        /\ ret.path[1] = Start
        /\ ret.path[Len(ret.path)] = Goal
        /\ \A i \in 1..(Len(ret.path) - 1) :
            /\ contains_key(tree, ret.path[i])
            /\ contains_key(tree, ret.path[i + 1])
            /\ Parent(tree, ret.path[i + 1]) = tree.nodes_map[ret.path[i]]

\* C2 witness: a returned path with an inner node.
OkPathOfThree == Returned /\ ret.res = "Ok" /\ Len(ret.path) >= 3

\* C3: after any successful add_child and set_parent calls, the parent
\* pointers of every node lead to the root (index 0).
ParentsLeadToRoot == \A i \in DOMAIN tree.nodes : ReachesRoot(tree, i)

\* C4: after any add_child and set_parent calls, every non-root node's cost
\* is its parent's cost plus its distance to the parent.  Stated for the
\* states whose parent pointers still lead to the root, so that what refutes
\* it is a stale cost in a proper tree and not a cycle (C3).
CostInvariant == ParentsLeadToRoot => CostConsistent(tree)

\* C5: with use_rrtstar, after every outer iteration every non-root node's
\* cost is its parent's cost plus its distance to the parent.
PlanCostInvariant ==
    (args.use_rrtstar /\ pc \in {"loop", "post", "done"}) =>
        CostConsistent(tree)

\* C6: with fast_return, sample_fn is not called while the tree holds goal,
\* and rrt() then returns Ok.
FastReturnStopsAtGoal ==
    /\ [][(args.fast_return /\ contains_key(tree, Goal)) =>
            calls'.sample_fn = calls.sample_fn]_vars
    /\ []((args.fast_return /\ Returned /\ contains_key(tree, Goal)) =>
            ret.res = "Ok")

\* C7: sample_fn is called at most max_iterations times; every iteration
\* entered begins with the time check, which either ends the loop or lets
\* sample_fn be called; and once the check has reported the budget exceeded
\* no callback is invoked and the tree is left as it is.
BudgetsRespected ==
    /\ [](/\ calls.sample_fn <= args.max_iterations
          /\ iter <= args.max_iterations
          /\ iter = calls.sample_fn + (IF timedOut THEN 1 ELSE 0))
    /\ [][timedOut => (tree' = tree /\ calls' = calls
                        /\ pc' \in {"post", "done"})]_vars

\* C7 witness: rrt() has returned after a time-out in a later iteration.
ReturnedAfterTimeOut ==
    Returned /\ timedOut /\ calls.sample_fn >= 1 /\ size(tree) >= 2

\* C8 as stated: with max_iterations = 0, rrt() returns Err.
ZeroIterationsErr ==
    (Returned /\ args.max_iterations = 0) => ret.res = "Err"

\* C8 amended: with max_iterations = 0, rrt() returns Err when start # goal
\* and Ok([start]) when start = goal.
ZeroIterationsErrUnlessAtGoal ==
    (pc \in {"done", "hang"} /\ args.max_iterations = 0) =>
        /\ pc = "done"
        /\ size(tree) = 1
        /\ IF Start = Goal
           THEN ret = [res |-> "Ok", path |-> <<Start>>]
           ELSE ret.res = "Err"

\* C8 witness: returned with max_iterations = 0 and goal away from start.
ZeroIterationsReturned ==
    Returned /\ args.max_iterations = 0 /\ Start # Goal

\* C9: with start = goal, rrt() returns Ok and the path is [start] or
\* [start, goal].
StartIsGoalOk ==
    (pc \in {"done", "hang"} /\ Start = Goal) =>
        /\ pc = "done"
        /\ ret.res = "Ok"
        /\ ret.path \in {<<Start>>, <<Start, Goal>>}

\* C9 witness: returned with start = goal after the goal link was attempted
\* from another node.
StartIsGoalReturned ==
    /\ Returned /\ Start = Goal /\ size(tree) >= 3
    /\ new_points # <<>>
    /\ connectable_fn(args, Goal, new_points[Len(new_points)])
    /\ new_points[Len(new_points)] # Goal

\* C10: a successful add_child(parent, child) had parent in the tree and child
\* not; it adds one node, for child, at the end of the node vector, with the
\* node of parent as its parent and cost(parent) + distance(child, parent)
\* (>= 0) as its cost, last among parent's children and entered in the map;
\* no other node's parent, cost or children changes.
AddChildPost ==
    [][(lastOp'.op = "add_child" /\ lastOp'.res = "Ok") =>
        LET parent == lastOp'.parent
            child == lastOp'.child
            n == size(tree)
            parent_idx == tree.nodes_map[parent]
            children == tree'.nodes[parent_idx].children
        IN  /\ contains_key(tree, parent) /\ ~contains_key(tree, child)
            /\ size(tree') = n + 1
            /\ DOMAIN tree'.nodes = 0..n
            /\ tree'.nodes[n].value = child
            /\ tree'.nodes[n].parent = parent_idx
            /\ tree'.nodes[n].cost =
                    tree.nodes[parent_idx].cost + distance(child, parent)
            /\ tree'.nodes[n].cost >= 0
            /\ tree'.nodes[n].children = <<>>
            /\ children = Append(tree.nodes[parent_idx].children, n)
            /\ tree'.nodes_map = tree.nodes_map @@ (child :> n)
            /\ \A i \in DOMAIN tree.nodes :
                /\ tree'.nodes[i].value = tree.nodes[i].value
                /\ tree'.nodes[i].parent = tree.nodes[i].parent
                /\ tree'.nodes[i].cost = tree.nodes[i].cost
                /\ i # parent_idx =>
                    tree'.nodes[i].children = tree.nodes[i].children
    ]_vars

\* C10 witness: a successful add_child gave a node its second child.
AddedSecondChild ==
    /\ lastOp.op = "add_child" /\ lastOp.res = "Ok"
    /\ Len(tree.nodes[tree.nodes_map[lastOp.parent]].children) >= 2
    /\ tree.nodes[tree.nodes_map[lastOp.child]].cost >= 2

\* C11: add_child(parent, child) fails with ChildAlreadyPresent when child is
\* in the tree (whether parent is or not), with ParentNotFound when child is
\* not in the tree and parent is not either, and succeeds otherwise; a failed
\* call leaves the whole tree as it was.
AddChildErrors ==
    [][lastOp'.op = "add_child" =>
        /\ lastOp'.res =
                (IF contains_key(tree, lastOp'.child) THEN "ChildAlreadyPresent"
                 ELSE IF ~contains_key(tree, lastOp'.parent) THEN "ParentNotFound"
                 ELSE "Ok")
        /\ lastOp'.res # "Ok" => tree' = tree
    ]_vars

\* C11 witness: add_child has failed for a parent that is not in a tree of
\* several nodes.
AddChildParentMissing ==
    /\ lastOp.op = "add_child" /\ lastOp.res = "ParentNotFound"
    /\ size(tree) >= 3
    /\ ~contains_key(tree, lastOp.parent) /\ ~contains_key(tree, lastOp.child)

\* C12: a successful set_parent(new_parent, child) removes child from the
\* children of its former parent, makes it the last of new_parent's children,
\* sets parent(child) = new_parent and cost(child) = cost(new_parent) +
\* distance(child, new_parent), and changes nothing else: size, the map, and
\* the parent and cost of every other node, child's descendants included.
SetParentPost ==
    [][(lastOp'.op = "set_parent" /\ lastOp'.res = "Ok") =>
        LET parent == lastOp'.parent
            child == lastOp'.child
            p == tree.nodes_map[parent]
            c == tree.nodes_map[child]
            former == tree.nodes[c].parent
        IN  /\ DOMAIN tree'.nodes = DOMAIN tree.nodes
            /\ tree'.nodes_map = tree.nodes_map
            /\ tree'.nodes[c].parent = p
            /\ tree'.nodes[c].cost = tree.nodes[p].cost + distance(child, parent)
            /\ former # p => c \notin SeqSet(tree'.nodes[former].children)
            /\ tree'.nodes[p].children =
                    Append(SeqRemove(tree.nodes[p].children, c), c)
            /\ \A i \in DOMAIN tree.nodes :
                /\ tree'.nodes[i].value = tree.nodes[i].value
                /\ i # c => /\ tree'.nodes[i].parent = tree.nodes[i].parent
                            /\ tree'.nodes[i].cost = tree.nodes[i].cost
                /\ (i # p /\ i # former) =>
                        tree'.nodes[i].children = tree.nodes[i].children
                /\ (i # p /\ i = former) =>
                        tree'.nodes[i].children =
                            SeqRemove(tree.nodes[i].children, c)
    ]_vars

\* C12 witness: set_parent has moved a node that has a child of its own under
\* a node other than the root, and the child's cost is what it was.
MovedSubtree ==
    /\ lastOp.op = "set_parent" /\ lastOp.res = "Ok"
    /\ lastOp.parent # lastOp.child
    /\ tree.nodes_map[lastOp.parent] # 0
    /\ ParentsLeadToRoot
    /\ \E i \in DOMAIN tree.nodes :
        /\ tree.nodes[i].parent = tree.nodes_map[lastOp.child]
        /\ tree.nodes[i].cost < tree.nodes[tree.nodes_map[lastOp.child]].cost

\* C13: set_parent(new_parent, child) fails with ParentNotFound when
\* new_parent is not in the tree (whatever child is), with ChildNotFound when
\* new_parent is in the tree and child is not, and with CannotReparentRoot
\* when both are and child is the root; a failed call leaves the whole tree as
\* it was.
SetParentErrors ==
    [][lastOp'.op = "set_parent" =>
        /\ lastOp'.res =
                (IF ~contains_key(tree, lastOp'.parent) THEN "ParentNotFound"
                 ELSE IF ~contains_key(tree, lastOp'.child) THEN "ChildNotFound"
                 ELSE IF tree.nodes[0].value = lastOp'.child
                 THEN "CannotReparentRoot"
                 ELSE "Ok")
        /\ lastOp'.res # "Ok" => tree' = tree
    ]_vars

\* C13 witness: set_parent has refused to move the root under one of its
\* descendants.
RootNotReparented ==
    /\ lastOp.op = "set_parent" /\ lastOp.res = "CannotReparentRoot"
    /\ size(tree) >= 3
    /\ lastOp.child = tree.nodes[0].value
    /\ contains_key(tree, lastOp.parent) /\ lastOp.parent # lastOp.child

\* set_parent(p, c) is called in a state where p is already the parent of c
SameParentCall ==
    /\ lastOp'.op = "set_parent"
    /\ contains_key(tree, lastOp'.parent) /\ contains_key(tree, lastOp'.child)
    /\ Parent(tree, lastOp'.child) = tree.nodes_map[lastOp'.parent]

\* The number of places of the sequence s that hold x
Occurrences(s, x) == Cardinality({k \in 1..Len(s) : s[k] = x})

\* C14 as stated: set_parent(p, c) with p already c's parent succeeds, c
\* occurs exactly once in p's children, and the tree after the call equals
\* the tree before it.
SetParentSameParentNoChange ==
    [][SameParentCall =>
        /\ lastOp'.res = "Ok"
        /\ Occurrences(tree'.nodes[tree.nodes_map[lastOp'.parent]].children,
                       tree.nodes_map[lastOp'.child]) = 1
        /\ tree' = tree
    ]_vars

\* C14 amended: set_parent(p, c) with p already c's parent succeeds and c
\* occurs exactly once in p's children, as their last; cost(c) is stored as
\* cost(p) + distance(c, p); nothing else changes (parent(c), the order of
\* p's other children, every other node), and a second such call changes
\* nothing at all.
SetParentSameParentMovesLast ==
    [][SameParentCall =>
        LET parent == lastOp'.parent
            child == lastOp'.child
            p == tree.nodes_map[parent]
            c == tree.nodes_map[child]
            new_cost == tree.nodes[p].cost + distance(child, parent)
        IN  /\ lastOp'.res = "Ok"
            /\ Occurrences(tree'.nodes[p].children, c) = 1
            /\ tree'.nodes_map = tree.nodes_map
            /\ tree'.nodes =
                    [i \in DOMAIN tree.nodes |->
                        [tree.nodes[i] EXCEPT
                            !.children = IF i = p
                                         THEN Append(SeqRemove(@, c), c) ELSE @,
                            !.cost = IF i = c THEN new_cost ELSE @]]
            /\ set_parent(tree', parent, child).tree = tree'
    ]_vars

\* C14 witness: set_parent(p, c) was called with p already c's parent and c
\* not the last of p's children; c is now behind a child added after it.
MovedBehindYoungerSibling ==
    /\ lastOp.op = "set_parent" /\ lastOp.res = "Ok"
    /\ ParentsLeadToRoot
    /\ LET p == tree.nodes_map[lastOp.parent]
           c == tree.nodes_map[lastOp.child]
           children == tree.nodes[p].children
       IN  /\ Len(children) >= 2
           /\ children[Len(children)] = c
           /\ \E k \in 1..(Len(children) - 1) : children[k] > c
           /\ \A i \in DOMAIN tree.nodes :
                (i # 0 /\ i # c) => tree.nodes[i].cost = tree.nodes[i].value
           /\ p = 0 /\ tree.nodes[0].value = 0

\* C15: in every state reached by add_child and set_parent calls, n is among
\* the children of p exactly when parent(n) = p; no children sequence holds an
\* index twice; every node but the root has one parent and the root has none.
ParentChildrenAgree ==
    /\ \A p \in DOMAIN tree.nodes, n \in DOMAIN tree.nodes :
            n \in SeqSet(tree.nodes[p].children) <=> tree.nodes[n].parent = p
    /\ \A p \in DOMAIN tree.nodes :
        /\ SeqSet(tree.nodes[p].children) \subseteq DOMAIN tree.nodes
        /\ \A n \in DOMAIN tree.nodes : Occurrences(tree.nodes[p].children, n) <= 1
    /\ tree.nodes[0].parent = None
    /\ \A n \in DOMAIN tree.nodes \ {0} : tree.nodes[n].parent \in DOMAIN tree.nodes

\* C15 witness: a node with a child has been moved by set_parent and a node
\* has two children.
MovedAmongSiblings ==
    /\ pc = "idle"
    /\ lastOp.op = "set_parent" /\ lastOp.res = "Ok"
    /\ size(tree) = 4
    /\ tree.nodes[tree.nodes_map[lastOp.child]].children # <<>>
    /\ \E p \in DOMAIN tree.nodes : Len(tree.nodes[p].children) = 2

\* C16: under any tree operations size never decreases, no two nodes hold
\* the same value, each value in the tree maps to the one node that holds it
\* and goes on mapping to it, and the root stays at index 0 with no parent
\* and cost 0.
StorageStable ==
    /\ [](/\ DOMAIN tree.nodes = 0..(size(tree) - 1)
          /\ \A i \in DOMAIN tree.nodes, j \in DOMAIN tree.nodes :
                tree.nodes[i].value = tree.nodes[j].value => i = j
          /\ DOMAIN tree.nodes_map = {tree.nodes[i].value : i \in DOMAIN tree.nodes}
          /\ \A v \in DOMAIN tree.nodes_map : tree.nodes[tree.nodes_map[v]].value = v
          /\ tree.nodes[0].parent = None /\ tree.nodes[0].cost = 0)
    /\ [][/\ size(tree') >= size(tree)
           /\ tree'.nodes[0].value = tree.nodes[0].value
           /\ \A v \in DOMAIN tree.nodes_map :
                /\ contains_key(tree', v)
                /\ tree'.nodes_map[v] = tree.nodes_map[v]]_vars

\* C16 witness: the tree is full and a node other than the root has been
\* moved under the last node.
FullTreeReparented ==
    /\ pc = "idle"
    /\ size(tree) = MaxValue + 1
    /\ lastOp.op = "set_parent" /\ lastOp.res = "Ok"
    /\ tree.nodes_map[lastOp.parent] = MaxValue
    /\ tree.nodes_map[lastOp.child] = 1

\* C17: nearest_neighbor(q) returns a value v of the tree with distance(q, v)
\* <= distance(q, u) for every node u; of several nodes at that distance it
\* returns the one stored first; on a tree of the root alone it returns the
\* root.
NearestIsFirstMinimum ==
    lastOp.op = "nearest_neighbor" =>
        LET q == lastOp.val
            v == lastOp.res
        IN  /\ contains_key(tree, v)
            /\ \A i \in DOMAIN tree.nodes :
                /\ Abs(q - v) <= Abs(q - tree.nodes[i].value)
                /\ Abs(q - v) = Abs(q - tree.nodes[i].value) =>
                        tree.nodes_map[v] <= i
            /\ size(tree) = 1 => v = tree.nodes[0].value

\* C17 witness: of two nodes equally near the query, the one returned is the
\* larger value, stored before the smaller one.
NearestTieFirstStored ==
    /\ lastOp.op = "nearest_neighbor"
    /\ \E i \in DOMAIN tree.nodes :
        /\ tree.nodes[i].value < lastOp.res
        /\ Abs(lastOp.val - tree.nodes[i].value) = Abs(lastOp.val - lastOp.res)
        /\ tree.nodes_map[lastOp.res] < i

Neighbors(t, i) == t.nodes[i].neighbors

\* The stored neighbour relation is symmetric, with the two nodes' distance
\* recorded on both sides, and no node is its own neighbour
NeighborsSymmetric(t) ==
    \A i \in DOMAIN t.nodes :
        /\ i \notin DOMAIN Neighbors(t, i)
        /\ DOMAIN Neighbors(t, i) \subseteq DOMAIN t.nodes
        /\ \A j \in DOMAIN Neighbors(t, i) :
            /\ i \in DOMAIN Neighbors(t, j)
            /\ Neighbors(t, j)[i] = Neighbors(t, i)[j]
            /\ Neighbors(t, i)[j] = Abs(t.nodes[i].value - t.nodes[j].value)

\* What a call of Tree::nearest_neighbors(v, r) on a value of the tree
\* records: for exactly the other nodes u within r, u among v's neighbours
\* and v among u's, with their distance; the rest of the tree is as it was
NeighborsRecorded ==
    LET v == lastOp'.val
        r == lastOp'.radius
        n == tree.nodes_map[v]
        near == {i \in DOMAIN tree.nodes \ {n} : Abs(v - tree.nodes[i].value) <= r}
    IN  /\ lastOp'.res = "Ok"
        /\ tree'.nodes_map = tree.nodes_map
        /\ DOMAIN tree'.nodes = DOMAIN tree.nodes
        /\ \A i \in DOMAIN tree.nodes :
            /\ [tree'.nodes[i] EXCEPT !.neighbors = <<>>] =
                    [tree.nodes[i] EXCEPT !.neighbors = <<>>]
            /\ DOMAIN Neighbors(tree', i) =
                    DOMAIN Neighbors(tree, i) \cup
                        (IF i = n THEN near ELSE IF i \in near THEN {n} ELSE {})
            /\ \A j \in DOMAIN Neighbors(tree, i) :
                    Neighbors(tree', i)[j] = Neighbors(tree, i)[j]
        /\ \A i \in near :
            /\ Neighbors(tree', n)[i] = Abs(v - tree.nodes[i].value)
            /\ Neighbors(tree', i)[n] = Abs(v - tree.nodes[i].value)

\* Tree::nearest_neighbors is called on a value of the tree
NeighborsCall ==
    lastOp'.op = "tree_nearest_neighbors" /\ contains_key(tree, lastOp'.val)

\* C19 as stated: Tree::nearest_neighbors(v, r) on a value v of the tree
\* returns the closest node other than v and records exactly the other nodes
\* within r as neighbours, both ways; the stored neighbour relation is
\* symmetric in every reachable state and no node is its own neighbour.
NeighborsReturnsAnother ==
    /\ [][NeighborsCall =>
            /\ NeighborsRecorded
            /\ lastOp'.value # lastOp'.val
            /\ contains_key(tree, lastOp'.value)
            /\ \A i \in DOMAIN tree.nodes \ {tree.nodes_map[lastOp'.val]} :
                    Abs(lastOp'.val - lastOp'.value)
                        <= Abs(lastOp'.val - tree.nodes[i].value)]_vars
    /\ []NeighborsSymmetric(tree)

\* C19 amended: as stated when the tree holds a node other than v (of
\* several closest ones the first stored is returned); on a tree that holds
\* v alone the call returns v itself and records nothing.
NeighborsReturnsAnotherIfAny ==
    /\ [][NeighborsCall =>
            /\ NeighborsRecorded
            /\ contains_key(tree, lastOp'.value)
            /\ IF size(tree) = 1
               THEN lastOp'.value = lastOp'.val /\ tree' = tree
               ELSE /\ lastOp'.value # lastOp'.val
                    /\ \A i \in DOMAIN tree.nodes \ {tree.nodes_map[lastOp'.val]} :
                        /\ Abs(lastOp'.val - lastOp'.value)
                                <= Abs(lastOp'.val - tree.nodes[i].value)
                        /\ Abs(lastOp'.val - lastOp'.value)
                                = Abs(lastOp'.val - tree.nodes[i].value)
                            => tree.nodes_map[lastOp'.value] <= i]_vars
    /\ []NeighborsSymmetric(tree)

\* C19 witness: a call has given the queried node two neighbours, at
\* different distances, and returned the nearer.
TwoNeighborsRecorded ==
    /\ lastOp.op = "tree_nearest_neighbors" /\ lastOp.res = "Ok"
    /\ lastOp.radius = 2
    /\ size(tree) = 3
    /\ LET n == tree.nodes_map[lastOp.val]
       IN  /\ Cardinality(DOMAIN Neighbors(tree, n)) = 2
           /\ \E i \in DOMAIN Neighbors(tree, n), j \in DOMAIN Neighbors(tree, n) :
                /\ Neighbors(tree, n)[i] = 1 /\ Neighbors(tree, n)[j] = 2
                /\ tree.nodes[i].value = lastOp.value
                /\ Neighbors(tree, i) = (n :> 1)

\* C20: in a tree built by add_child calls, path(v) of a value v of the tree
\* starts with the root, ends with v, and each element is the parent of the
\* next; path(root) = [root]; path of a value not in the tree fails with
\* NotFound; and after add_child(p, c), path(c) is path(p) followed by c.
PathIsRootFirstWalk ==
    /\ [](lastOp.op = "path" =>
            LET v == lastOp.end
                r == lastOp.res
            IN  IF contains_key(tree, v)
                THEN /\ r.res = "Ok"
                     /\ Len(r.path) >= 1
                     /\ r.path[1] = tree.nodes[0].value
                     /\ r.path[Len(r.path)] = v
                     /\ \A k \in 1..(Len(r.path) - 1) :
                        /\ contains_key(tree, r.path[k])
                        /\ contains_key(tree, r.path[k + 1])
                        /\ Parent(tree, r.path[k + 1]) = tree.nodes_map[r.path[k]]
                     /\ v = tree.nodes[0].value => r.path = <<v>>
                ELSE r.res = "NotFound")
    /\ [][(lastOp'.op = "add_child" /\ lastOp'.res = "Ok") =>
            /\ path(tree, lastOp'.parent).res = "Ok"
            /\ path(tree', lastOp'.child) =
                    [res |-> "Ok",
                     path |-> Append(path(tree, lastOp'.parent).path,
                                     lastOp'.child)]]_vars

\* C20 witness: the path of a node two edges below the root has been asked
\* for.
PathOfGrandchild ==
    /\ lastOp.op = "path"
    /\ lastOp.res.res = "Ok" /\ Len(lastOp.res.path) = 3

\* The indices on the parent chain of node i, i included
AncestorsOrSelf(t, i) == SeqSet(WalkUp(t, i, size(t) + 1))

\* The place of x in the sequence s, which holds it
PlaceOf(s, x) == CHOOSE k \in 1..Len(s) : s[k] = x

\* C21: iter_depth_first yields every node of the tree exactly once, in
\* pre-order from the root (a node comes after its parent and right after
\* the subtree of the node before it), the children of a node in the order
\* of its children sequence.
DepthFirstIsPreorder ==
    lastOp.op = "iter_depth_first" =>
        LET out == lastOp.res
            at(k) == tree.nodes_map[out[k]]
        IN  /\ Len(out) = size(tree)
            /\ SeqSet(out) = DOMAIN tree.nodes_map
            /\ out[1] = tree.nodes[0].value
            /\ \A k \in 2..Len(out) :
                    tree.nodes[at(k)].parent \in AncestorsOrSelf(tree, at(k - 1))
            /\ \A i \in DOMAIN tree.nodes :
                \A a \in 1..Len(tree.nodes[i].children) :
                \A b \in 1..Len(tree.nodes[i].children) :
                    a < b => PlaceOf(out, tree.nodes[tree.nodes[i].children[a]].value)
                             < PlaceOf(out, tree.nodes[tree.nodes[i].children[b]].value)

\* The parent and the stored cost of every node
ParentsAndCosts(t) ==
    [i \in DOMAIN t.nodes |-> <<t.nodes[i].parent, t.nodes[i].cost>>]

\* The values rewire_tree is to move under the pivot p: those within the
\* radius, other than p, cheaper to reach through p and connectable from p
ToBeMoved(t, c, p, r) ==
    {n \in DOMAIN t.nodes_map :
        /\ n # p
        /\ Abs(p - n) <= r
        /\ t.nodes[t.nodes_map[p]].cost + Abs(p - n) < t.nodes[t.nodes_map[n]].cost
        /\ CASE c = "adjacent" -> Abs(p - n) = 1
             [] c = "blocked" -> Abs(p - n) = 1 /\ Obstacle \notin {p, n}
             [] c = "within_two" -> Abs(p - n) <= 2
             [] OTHER -> TRUE}

\* C24: rewire_tree at pivot p moves under p exactly the nodes n # p with
\* distance(p, n) <= radius, cost(p) + distance(p, n) < cost(n) and
\* connectable(p, n); each of them ends with parent p and cost cost(p) +
\* distance(p, n); the parent and cost of the pivot and of every other node,
\* the size and the map are as before.
RewireMovesExactly ==
    lastOp.op = "rewire_tree" =>
        LET b == lastOp.before
            p == lastOp.point
            moved == ToBeMoved(b, lastOp.connectable_fn, p, lastOp.radius)
        IN  /\ tree.nodes_map = b.nodes_map
            /\ DOMAIN tree.nodes = DOMAIN b.nodes
            /\ \A n \in DOMAIN b.nodes_map :
                LET i == b.nodes_map[n]
                IN  /\ tree.nodes[i].value = n
                    /\ IF n \in moved
                       THEN /\ tree.nodes[i].parent = b.nodes_map[p]
                            /\ tree.nodes[i].cost =
                                    b.nodes[b.nodes_map[p]].cost + Abs(p - n)
                       ELSE /\ tree.nodes[i].parent = b.nodes[i].parent
                            /\ tree.nodes[i].cost = b.nodes[i].cost

\* C24 witness: the test's 2 -> 4 -> 1 rewired at 2, moved one to the left
\* (1 -> 3 -> 0 at pivot 1 with a radius that covers both): 0 has become a
\* child of 1, at cost 1.
RewiredGrandchild ==
    /\ lastOp.op = "rewire_tree" /\ lastOp.point = 1 /\ lastOp.radius = 2
    /\ size(lastOp.before) = 3
    /\ lastOp.before.nodes[0].value = 1
    /\ lastOp.before.nodes[1] = [NewNode(3, 0, 2) EXCEPT !.children = <<2>>]
    /\ lastOp.before.nodes[2] = NewNode(0, 1, 5)
    /\ tree.nodes[2] = NewNode(0, 0, 1)
    /\ tree.nodes[1] = NewNode(3, 0, 2)

\* C25: after rewire_tree no node's stored cost is above what it was, and
\* the cost of every node whose parent has changed is below what it was.
RewireOnlyImproves ==
    lastOp.op = "rewire_tree" =>
        \A i \in DOMAIN lastOp.before.nodes :
            /\ tree.nodes[i].cost <= lastOp.before.nodes[i].cost
            /\ tree.nodes[i].parent # lastOp.before.nodes[i].parent =>
                    tree.nodes[i].cost < lastOp.before.nodes[i].cost

\* C25 witness: a call has moved a node that has a child, and the child's
\* cost is what it was.
RewiredParentOfAnother ==
    /\ lastOp.op = "rewire_tree"
    /\ \E i \in DOMAIN tree.nodes, j \in DOMAIN tree.nodes :
        /\ tree.nodes[i].parent # lastOp.before.nodes[i].parent
        /\ tree.nodes[i].cost < lastOp.before.nodes[i].cost
        /\ tree.nodes[j].parent = i
        /\ tree.nodes[j].cost = lastOp.before.nodes[j].cost

\* The orders in which the call recorded in lastOp could have been given its
\* neighbours
OrdersOfLastCall ==
    LET near == DOMAIN nearest_neighbors(lastOp.before, lastOp.point,
                                         lastOp.radius)
    IN  {<<lastOp.point>> \o o : o \in Orders(near \ {lastOp.point})}

\* C26: whatever the order in which rewire_tree is given the neighbours,
\* every node ends with the same parent and the same stored cost.
RewireOrderIrrelevant ==
    lastOp.op = "rewire_tree" =>
        \A order \in OrdersOfLastCall :
            ParentsAndCosts(rewire_tree(lastOp.before,
                    [connectable_fn |-> lastOp.connectable_fn], lastOp.point,
                    lastOp.radius, order))
                = ParentsAndCosts(tree)

\* C26 witness: a call has moved two nodes, and the one stored later has
\* become a child of the pivot before the other.
RewiredTwoLaterFirst ==
    /\ lastOp.op = "rewire_tree"
    /\ LET p == tree.nodes_map[lastOp.point]
           children == tree.nodes[p].children
       IN  \E a \in 1..Len(children), b \in 1..Len(children) :
            /\ a < b /\ children[a] > children[b]
            /\ tree.nodes[children[a]].parent
                    # lastOp.before.nodes[children[a]].parent
            /\ tree.nodes[children[b]].parent
                    # lastOp.before.nodes[children[b]].parent

\* The step of rrt() that calls extend_tree
ExtendStep == pc = "loop" /\ pc' = "extended"

\* C27: without use_connect extend_tree returns the nearest node of the sample
\* and, if the sample is connectable from it, the sample alone; else the point
\* extend_fn gives from it, if that is connectable from it; else nothing.  It
\* returns at most one point and leaves the tree as it was.
ExtendSingleStep ==
    [][(ExtendStep /\ ~args.use_rrtconnect) =>
        LET s == sample'
            near == nearest_neighbor(tree, s)
            p == extend_fn(args, near, s)
        IN  /\ nearest' = near
            /\ new_points' = IF connectable_fn(args, near, s) THEN <<s>>
                              ELSE IF connectable_fn(args, near, p) THEN <<p>>
                              ELSE <<>>
            /\ Len(new_points') <= 1
            /\ tree' = tree]_vars

\* From a tree holding only 0, neighbours on the line being connectable,
\* sample 2 has given ([1], 0)
SingleStepTowardSample ==
    /\ pc = "extended" /\ ~args.use_rrtconnect
    /\ args.connectable_fn = "adjacent"
    /\ size(tree) = 1 /\ tree.nodes[0].value = 0
    /\ sample = 2 /\ new_points = <<1>> /\ nearest = 0

\* C28: with use_connect and the sample not connectable from its nearest node,
\* extend_tree returns a chain of extend_fn steps from the nearest node toward
\* the sample: each element is connectable from the one before it (the first
\* from the nearest node) and is nearer the sample than that one; the steps
\* end at the first one that comes no nearer or is not connectable, and the
\* sample ends the chain exactly when it is connectable from the last step.
ExtendConnectChain ==
    [][(/\ ExtendStep
        /\ args.use_rrtconnect
        /\ ~connectable_fn(args, nearest_neighbor(tree, sample'), sample')) =>
        LET s == sample'
            np == new_points'
            chain == <<nearest'>> \o np
            appended == np # <<>> /\ np[Len(np)] = s
            steps == IF appended THEN Len(np) - 1 ELSE Len(np)
            current == chain[steps + 1]
            next == extend_fn(args, current, s)
        IN  /\ nearest' = nearest_neighbor(tree, s)
            /\ \A i \in 1..steps : np[i] = extend_fn(args, chain[i], s)
            /\ \A i \in 1..Len(np) :
                    /\ connectable_fn(args, chain[i], chain[i + 1])
                    /\ distance(chain[i + 1], s) < distance(chain[i], s)
            /\ appended <=> connectable_fn(args, current, s)
            /\ ~appended => \/ distance(next, s) >= distance(current, s)
                            \/ ~connectable_fn(args, current, next)
            /\ tree' = tree]_vars

\* From a tree holding only 0, neighbours on the line being connectable,
\* sample 4 has given ([1, 2, 3, 4], 0)
ChainReachesSample ==
    /\ pc = "extended" /\ args.use_rrtconnect
    /\ args.connectable_fn = "adjacent"
    /\ size(tree) = 1 /\ tree.nodes[0].value = 0
    /\ sample = 4 /\ new_points = <<1, 2, 3, 4>> /\ nearest = 0

\* The insertion step of an iteration
InsertStep == pc = "extended" /\ pc' \in {"rewire", "goal"}

\* C29: the insertion step leaves every point of new_points in the tree; a
\* point that was absent has the point before it in the sequence (nearest for
\* the first) as its parent, a point that was present keeps its parent, and
\* no add_child fails for a missing parent.  While the iteration rewires and
\* links the goal every point of new_points stays in the tree, and what rrt()
\* returns is Ok or its own planning failure.
InsertionComplete ==
    [][/\ InsertStep =>
            LET chain == <<nearest>> \o new_points
            IN  /\ \A i \in 1..Len(new_points) :
                    /\ contains_key(tree', new_points[i])
                    /\ Parent(tree', new_points[i]) =
                            IF contains_key(tree, new_points[i])
                            THEN Parent(tree, new_points[i])
                            ELSE tree'.nodes_map[chain[i]]
                /\ \A i \in 1..Len(new_points) :
                    AddAllResults(tree, nearest, new_points)[i]
                        # "ParentNotFound"
                /\ \A v \in DOMAIN tree.nodes_map :
                    /\ contains_key(tree', v)
                    /\ Parent(tree', v) = Parent(tree, v)
       /\ pc' \in {"rewire", "goal"} =>
            \A i \in 1..Len(new_points') : contains_key(tree', new_points'[i])
       /\ pc' = "done" => ret'.res \in {"Ok", "Err"}]_vars

\* The insertion step has met a sample that was in the tree, the child of
\* another node, and has left it there
InsertedPresentPoint ==
    /\ pc = "goal"
    /\ ~args.use_rrtstar
    /\ new_points = <<nearest>>
    /\ Parent(tree, nearest) # None
    /\ tree.nodes_map[nearest] < size(tree) - 1

\* The goal-link step of an iteration whose last new point is connectable to
\* the goal
GoalLinkStep ==
    /\ pc = "goal" /\ pc' # "goal"
    /\ connectable_fn(args, Goal, new_points[Len(new_points)])

\* C30: when the last new point is connectable to the goal, the goal is in the
\* tree after the goal-link step; a goal that was absent is added as a child
\* of that point at its cost plus the distance, and for a goal that was
\* present the tree stays as it is and rrt() goes on: to the next iteration,
\* or out of the loop under fast_return.
GoalLinked ==
    [][GoalLinkStep =>
        LET last == new_points[Len(new_points)]
        IN  /\ contains_key(tree', Goal)
            /\ ~contains_key(tree, Goal) =>
                    /\ tree' = add_child(tree, last, Goal).tree
                    /\ size(tree') = size(tree) + 1
                    /\ Parent(tree', Goal) = tree.nodes_map[last]
                    /\ cost(tree', Goal) =
                            cost(tree, last) + distance(Goal, last)
            /\ contains_key(tree, Goal) => tree' = tree
            /\ pc' = IF args.fast_return THEN "post" ELSE "loop"]_vars

\* The goal has been linked to the last of several new points, which is not
\* the nearest node
GoalLinkedToChainEnd ==
    /\ pc \in {"loop", "post"}
    /\ Len(new_points) >= 2
    /\ contains_key(tree, Goal)
    /\ tree.nodes_map[Goal] = size(tree) - 1
    /\ Parent(tree, Goal) = tree.nodes_map[new_points[Len(new_points)]]
    /\ cost(tree, Goal) = cost(tree, new_points[Len(new_points)])
                            + distance(Goal, new_points[Len(new_points)])

\* C22: on one sequence of samples, without fast_return and within the time
\* budget, if RRT returns Ok then RRT* returns Ok and the cost it stores for
\* the goal is at most the cost RRT stores for it
RrtStarNoWorse ==
    (/\ pc = "done"
     /\ ~twin.use_rrtstar
     /\ ~args.fast_return
     /\ twin.ret.res = "Ok") =>
        /\ ret.res = "Ok"
        /\ cost(tree, Goal) <= cost(twin.tree, Goal)

\* Both have returned Ok and RRT* stores a smaller cost for the goal
RrtStarBetter ==
    /\ pc = "done"
    /\ ~twin.use_rrtstar
    /\ ~args.fast_return
    /\ twin.ret.res = "Ok" /\ ret.res = "Ok"
    /\ cost(tree, Goal) < cost(twin.tree, Goal)

\* C23: two calls of rrt() with the same arguments and the same samples,
\* within the time budget, return the same path and the same tree, down to
\* the order of every node's children
PlanDeterministic ==
    (pc = "done" /\ twin.use_rrtstar) =>
        /\ ret = twin.ret
        /\ tree = twin.tree

\* C31: when extend_tree has returned no new points, the next step of rrt()
\* is back at the head of the loop with the tree as it was and no callback
\* invoked: nothing is inserted, nothing rewired, the goal is not asked for.
EmptyExtensionSkipped ==
    [][(pc = "extended" /\ new_points = <<>>) =>
        /\ tree' = tree
        /\ calls' = calls
        /\ rewire' = rewire
        /\ iter' = iter
        /\ pc' = "loop"]_vars

\* Back at the head of the loop after an iteration whose extension was empty,
\* with a tree that earlier iterations have grown
EmptyExtensionDropped ==
    /\ pc = "loop"
    /\ iter >= 2
    /\ new_points = <<>>
    /\ size(tree) >= 2

\* The callbacks of ConnectableFns are symmetric
Symmetric(a) ==
    \A x, y \in 0..(MaxSample + 1) :
        connectable_fn(a, x, y) = connectable_fn(a, y, x)

\* The sum of the distances between the consecutive elements of p
RECURSIVE PathLength(_)
PathLength(p) ==
    IF Len(p) <= 1 THEN 0
    ELSE distance(p[1], p[2]) + PathLength(Tail(p))

\* C32: with a symmetric connectable_fn, in every state of rrt() the value of
\* every node is connectable from the value of its parent, and every two
\* consecutive elements of a returned path are connectable
EdgesConnectable ==
    Symmetric(args) =>
        /\ \A i \in DOMAIN tree.nodes :
                tree.nodes[i].parent # None =>
                    connectable_fn(args, tree.nodes[tree.nodes[i].parent].value,
                                   tree.nodes[i].value)
        /\ (Returned /\ ret.res = "Ok") =>
                \A k \in 1..(Len(ret.path) - 1) :
                    connectable_fn(args, ret.path[k], ret.path[k + 1])

\* Under a connectable_fn that refuses some pairs the goal 1, which was
\* linked to the new point 2, has been moved by the rewiring at 0 and is now
\* a child of the root, at cost 1
RewiredEdgeConnectable ==
    /\ pc = "goal"
    /\ args.connectable_fn = "within_two"
    /\ Start = 0 /\ Goal = 1
    /\ size(tree) = 3
    /\ tree.nodes[1].value = 2
    /\ tree.nodes[2] = NewNode(1, 0, 1)

\* C33: in every state of rrt() the parent pointers of every node of the tree
\* lead to the root, which holds start, and the walk of path(goal) ends
PlanParentsLeadToRoot ==
    /\ tree.nodes[0].value = Start
    /\ \A i \in DOMAIN tree.nodes : ReachesRoot(tree, i)
    /\ pc # "hang"
    /\ path(tree, Goal).res # "Diverges"

\* The rewiring has moved a node with a child under a node stored after it
\* (add_child hangs a node on one stored before it), and rrt() has returned
\* a path
RewiredInnerNode ==
    /\ Returned /\ ret.res = "Ok"
    /\ \E i \in DOMAIN tree.nodes :
            tree.nodes[i].parent > i /\ tree.nodes[i].children # <<>>

\* C34: in every state of rrt() the stored cost of every node but the root is
\* at least the stored cost of its parent plus its distance to the parent;
\* no stored cost is below the length of the node's path from the root, and
\* the stored cost of the goal is at least the length of a returned path
CostsNeverUnderestimate ==
    /\ \A i \in DOMAIN tree.nodes :
            tree.nodes[i].parent # None =>
                tree.nodes[i].cost >=
                    tree.nodes[tree.nodes[i].parent].cost
                    + distance(tree.nodes[i].value,
                               tree.nodes[tree.nodes[i].parent].value)
    /\ \A v \in DOMAIN tree.nodes_map :
            path(tree, v).res = "Ok" =>
                cost(tree, v) >= PathLength(path(tree, v).path)
    /\ (Returned /\ ret.res = "Ok") =>
            cost(tree, Goal) >= PathLength(ret.path)

\* rrt() has returned a tree in which the stored cost of a node is above the
\* stored cost of its parent plus its distance to the parent
StoredCostAbove ==
    /\ Returned /\ ret.res = "Ok"
    /\ \E i \in DOMAIN tree.nodes :
            /\ tree.nodes[i].parent # None
            /\ tree.nodes[i].cost >
                    tree.nodes[tree.nodes[i].parent].cost
                    + distance(tree.nodes[i].value,
                               tree.nodes[tree.nodes[i].parent].value)

====
